---- MODULE Spec2Model ----
(***************************************************************************)
(* A model of slack-blocks: the Checkboxes typed builder, the chainable    *)
(* constructors of the Actions / Context / Input block contents, the       *)
(* derive(Validate) validation of the nodes they produce, the conversions  *)
(* between the variant families, and the derived serialization.            *)
(*                                                                         *)
(* One value is under construction at a time.  `phase` says which:        *)
(*   "start"     nothing constructed yet                                   *)
(*   "building"  a CheckboxesBuilder is being staged                       *)
(*   "node"      a finished value exists (a Checkboxes, or block contents) *)
(*   "panicked"  build() aborted on Option::unwrap of None                 *)
(*   "converted" a conversion between variant families returned            *)
(*   "rejected"  a fallible constructor returned Err: there is no value    *)
(*   "serialized" the finished value was written out as JSON              *)
(***************************************************************************)
EXTENDS Integers, Sequences, FiniteSets, TLC

VARIABLES
  phase,    \* position in the construction sequence
  builder,  \* the CheckboxesBuilder fields and its PhantomData markers A, O
  node,     \* the finished value
  result,   \* <<>> or <<r>>: what the last validate call returned
  first,    \* history: what the first validate call on this value returned
  nval,     \* history: validate calls made on the current value
  call,     \* history: the last public operation and its argument
  hist,     \* history: the arguments the setters were last called with
  conv,     \* <<>> or <<r>>: what the last family conversion returned
  wire      \* <<>> or <<o>>: the JSON object the value was serialized to

vars == <<phase, builder, node, result, first, nval, call, hist, conv, wire>>

(***************************************************************************)
(* Bounds of the model.                                                    *)
(***************************************************************************)
\* appends (option / with_element) made after the last bulk set
MaxAppend == 3
\* validate calls made on one unmutated value
MaxValidate == 2

(***************************************************************************)
(* Program constants.                                                      *)
(***************************************************************************)
\* #[validate(length(max = 255))] on action_id
MaxActionIdLen == 255
\* below_len("options", 10, ..) and below_len("initial_options", 10, ..)
MaxOptions == 10
\* #[validate(length(max = 5))] on actions elements
MaxActionsElements == 5
\* #[validate(length(max = 10))] on context elements
MaxContextElements == 10
\* #[validate(length(max = 255))] on block_id
MaxBlockIdLen == 255
\* text_max_len(text, 2000)
MaxLabelLen == 2000
\* the longest text compose::Opt::validate accepts
MaxOptTextLen == 75

(***************************************************************************)
(* Option<T>: None is the empty sequence, Some(v) the one-element one.     *)
(***************************************************************************)
None == <<>>
Some(v) == <<v>>
IsSome(o) == Len(o) = 1
Unwrap(o) == o[1]

(***************************************************************************)
(* Strings.  A string is kept as its number of one-byte (ASCII) characters *)
(* and its number of three-byte characters, which is all the length       *)
(* checks read.                                                            *)
(***************************************************************************)
Str(a, w) == [n1 |-> a, n3 |-> w]
\* str::chars().count()
CharCount(s) == s.n1 + s.n3
\* str::len(): the UTF-8 byte length
ByteLen(s) == s.n1 + 3 * s.n3

(***************************************************************************)
(* Composition objects.                                                    *)
(***************************************************************************)
\* Text::plain: a plain_text object, emoji unset
Text_plain(s) == [kind |-> "plain_text", text |-> s, flag |-> None]
\* Text::markdown: a mrkdwn object, verbatim unset
Text_markdown(s) == [kind |-> "mrkdwn", text |-> s, flag |-> None]
\* Text::text: the text of either variant
Text_text(t) == t.text

\* Opt<'a, T, NoUrl>: T is the type-level marker of the text kind
Opt(T, text, value) == [T |-> T, text |-> text, value |-> value]
\* Opt<'a, T, NoUrl> -> Opt<'a, AnyText, NoUrl>: the marker is erased, the
\* text and the value are kept
OptInto(o) == [o EXCEPT !.T = "AnyText"]
\* options.into_iter().map(|o| o.into()).collect()
MapInto(v) == [i \in 1..Len(v) |-> OptInto(v[i])]

\* compose::Confirm is opaque here: all that is read is whether its own
\* validation accepts it
Confirm(valid) == [valid |-> valid]

(***************************************************************************)
(* The inputs the operations are called with.                              *)
(***************************************************************************)
Repeat(x, n) == [i \in 1..n |-> x]

sShort == Str(8, 0)
s255 == Str(MaxActionIdLen, 0)
s256 == Str(MaxActionIdLen + 1, 0)
\* 85 three-byte characters and one ASCII one: 86 characters, 256 bytes
sWide == Str(1, 85)
ActionIds == {sShort, s255, s256, sWide}

o1 == Opt("text::Plain", Text_plain(Str(3, 0)), Str(2, 0))
\* an option whose text is one character over the bound of an option's text
o2 == Opt("text::Plain", Text_plain(Str(MaxOptTextLen + 1, 0)), Str(3, 0))
o3 == Opt("text::Mrkdwn", Text_markdown(Str(3, 0)), Str(3, 0))
OptVecs == {<<>>, <<o1, o2>>, Repeat(o3, MaxOptions)}
AppendOpts == {o1, o3}
InitialOptVecs == {Repeat(o1, MaxOptions), Repeat(o3, MaxOptions + 1)}
Confirms == {Confirm(TRUE), Confirm(FALSE)}

(***************************************************************************)
(* CheckboxesBuilder<'a, A, O>.  A and O are the PhantomData markers of    *)
(* the required methods action_id and options.                             *)
(***************************************************************************)
NotCalled == "RequiredMethodNotCalled"
Set == "Set"
Markers == {NotCalled, Set}

\* the value held by `builder` when no builder exists
NoBuilder ==
  [action_id |-> None, options |-> None, initial_options |-> None,
   confirm |-> None, A |-> "none", O |-> "none"]

\* CheckboxesBuilder::<'a, A, O>::new(): defined for every A and O
new(A, O) ==
  [action_id |-> None, options |-> None, initial_options |-> None,
   confirm |-> None, A |-> A, O |-> O]

\* Checkboxes::builder() -> CheckboxesBuilderInit::new()
Checkboxes_builder == new(NotCalled, NotCalled)

\* a variant of action_id that hands back a builder in the initial options
\* state
action_id_resets_marker(b, s) ==
  [action_id |-> Some(s), options |-> b.options,
   initial_options |-> b.initial_options, confirm |-> b.confirm,
   A |-> Set, O |-> NotCalled]

\* a variant of action_id that keeps the value of the first call
action_id_first_wins(b, s) ==
  [action_id |-> IF IsSome(b.action_id) THEN b.action_id ELSE Some(s),
   options |-> b.options,
   initial_options |-> b.initial_options, confirm |-> b.confirm,
   A |-> Set, O |-> b.O]

action_id(b, s) ==
  [action_id |-> Some(s), options |-> b.options,
   initial_options |-> b.initial_options, confirm |-> b.confirm,
   A |-> Set, O |-> b.O]

\* a variant of options that adds to the collection already held
options_extends(b, v) ==
  [action_id |-> b.action_id,
   options |-> Some((IF IsSome(b.options) THEN Unwrap(b.options) ELSE <<>>)
                      \o MapInto(v)),
   initial_options |-> b.initial_options, confirm |-> b.confirm,
   A |-> b.A, O |-> Set]

options(b, v) ==
  [action_id |-> b.action_id, options |-> Some(MapInto(v)),
   initial_options |-> b.initial_options, confirm |-> b.confirm,
   A |-> b.A, O |-> Set]

\* a variant of option that starts a new collection at every call
option_replaces(b, o) ==
  [action_id |-> b.action_id, options |-> Some(<<OptInto(o)>>),
   initial_options |-> b.initial_options, confirm |-> b.confirm,
   A |-> b.A, O |-> Set]

\* a variant of option that inserts at the front
option_prepends(b, o) ==
  LET opts == IF IsSome(b.options)
              THEN <<OptInto(o)>> \o Unwrap(b.options)
              ELSE <<OptInto(o)>>
  IN [action_id |-> b.action_id, options |-> Some(opts),
      initial_options |-> b.initial_options, confirm |-> b.confirm,
      A |-> b.A, O |-> Set]

option(b, o) ==
  LET opts == IF IsSome(b.options)
              THEN Append(Unwrap(b.options), OptInto(o))
              ELSE <<OptInto(o)>>
  IN [action_id |-> b.action_id, options |-> Some(opts),
      initial_options |-> b.initial_options, confirm |-> b.confirm,
      A |-> b.A, O |-> Set]

\* the `blox` alias of option
child(b, o) == option(b, o)

initial_options(b, v) == [b EXCEPT !.initial_options = Some(MapInto(v))]

confirm(b, c) == [b EXCEPT !.confirm = Some(c)]

\* build exists only in impl CheckboxesBuilder<Set<action_id>, Set<options>>
BuildDefined(b) == b.A = Set /\ b.O = Set

\* Option::unwrap panics on None
BuildPanics(b) == ~IsSome(b.action_id) \/ ~IsSome(b.options)

\* a variant of build that cuts options to the documented maximum
build_clamps(b) ==
  [kind |-> "checkboxes",
   action_id |-> Unwrap(b.action_id),
   options |-> IF Len(Unwrap(b.options)) > MaxOptions
               THEN SubSeq(Unwrap(b.options), 1, MaxOptions)
               ELSE Unwrap(b.options),
   initial_options |-> b.initial_options,
   confirm |-> b.confirm]

build(b) ==
  [kind |-> "checkboxes",
   action_id |-> Unwrap(b.action_id),
   options |-> Unwrap(b.options),
   initial_options |-> b.initial_options,
   confirm |-> b.confirm]

(***************************************************************************)
(* Validation reports, as the validator crate builds them: one entry per   *)
(* offending field, either the field's own errors or, for a nested struct, *)
(* the nested struct's report.  The entries are keyed by field (a map), so *)
(* a report is a set.                                                      *)
(***************************************************************************)
FieldErr(f, code) == [field |-> f, kind |-> "Field", code |-> code, inner |-> {}]
StructErr(f, errs) == [field |-> f, kind |-> "Struct", code |-> "", inner |-> errs]

Ok == [outcome |-> "Ok", errs |-> {}]
Err(errs) == [outcome |-> "Err", errs |-> errs]
\* a panic (todo!()) instead of a returned value
Panic == [outcome |-> "panic", errs |-> {}]

\* derive(Validate): Err(errors) unless errors.is_empty()
ValidationResult(errs) == IF errs = {} THEN Ok ELSE Err(errs)

\* validate(length(max = n)) on a string: validator counts characters
LengthMaxStr(f, s, max) ==
  IF CharCount(s) > max THEN {FieldErr(f, "length")} ELSE {}

\* a variant of the length check on an Option<String> that rejects a string
\* of exactly max characters
LengthMaxOptStr_rejects_max(f, o, max) ==
  IF IsSome(o) /\ CharCount(Unwrap(o)) >= max
  THEN {FieldErr(f, "length")}
  ELSE {}

\* validate(length(max = n)) on an Option<String>: checked only when Some
LengthMaxOptStr(f, o, max) ==
  IF IsSome(o) THEN LengthMaxStr(f, Unwrap(o), max) ELSE {}

\* a variant of the length check on a Vec that rejects a full collection
LengthMaxVec_rejects_full(f, v, max) ==
  IF Len(v) >= max THEN {FieldErr(f, "length")} ELSE {}

\* validate(length(max = n)) on a Vec
LengthMaxVec(f, v, max) ==
  IF Len(v) > max THEN {FieldErr(f, "length")} ELSE {}

\* val_helpr::below_len(field, max, slice): an error when the slice is longer
below_len(f, max, xs) ==
  IF Len(xs) > max THEN {"length"} ELSE {}

\* a variant of validate_options that allows one option fewer
validate_options_one_fewer(o) == below_len("options", MaxOptions - 1, o)

validate_options(o) == below_len("options", MaxOptions, o)

validate_initial_options(o) == below_len("initial_options", MaxOptions, o)

\* Confirm::validate: a report with one entry when the Confirm is invalid
Confirm_validate(c) ==
  IF c.valid THEN Ok ELSE Err({FieldErr("confirm_field", "invalid")})

\* compose::Opt::validate: a report with one entry when the text is too long
Opt_validate(o) ==
  IF CharCount(Text_text(o.text)) > MaxOptTextLen
  THEN Err({FieldErr("text", "length")})
  ELSE Ok

\* #[validate] on an Option<nested>: the nested report, under the field
Nested(f, o, r) ==
  IF IsSome(o) /\ r.outcome = "Err" THEN {StructErr(f, r.errs)} ELSE {}

\* validate(custom = "f") on a field: the error f returns, under the field
Custom(f, codes) == {FieldErr(f, c) : c \in codes}

\* a variant of the derived validation that stops at the first failing field
Checkboxes_errors_first_only(n) ==
  LET a == LengthMaxStr("action_id", n.action_id, MaxActionIdLen)
      o == Custom("options", validate_options(n.options))
      i == IF IsSome(n.initial_options)
           THEN Custom("initial_options",
                       validate_initial_options(Unwrap(n.initial_options)))
           ELSE {}
      c == IF IsSome(n.confirm)
           THEN Nested("confirm", n.confirm, Confirm_validate(Unwrap(n.confirm)))
           ELSE {}
  IN IF a # {} THEN a ELSE IF o # {} THEN o ELSE IF i # {} THEN i ELSE c

\* derive(Validate) for Checkboxes: every field's checks run, all errors kept
Checkboxes_errors(n) ==
  LengthMaxStr("action_id", n.action_id, MaxActionIdLen)
    \cup Custom("options", validate_options(n.options))
    \cup (IF IsSome(n.initial_options)
          THEN Custom("initial_options",
                      validate_initial_options(Unwrap(n.initial_options)))
          ELSE {})
    \cup (IF IsSome(n.confirm)
          THEN Nested("confirm", n.confirm, Confirm_validate(Unwrap(n.confirm)))
          ELSE {})

Checkboxes_validate(n) == ValidationResult(Checkboxes_errors(n))

(***************************************************************************)
(* elems::select::multi::User and ::Conversation.  Their builders are not  *)
(* part of this development: the structs are taken as values of their      *)
(* fields.                                                                 *)
(***************************************************************************)
MaxPlaceholderLen == 150
MinSelectedItems == 1

multi_User(p, a, c, m) ==
  [kind |-> "multi::User", placeholder |-> p,
   action_id |-> a, confirm |-> c, initial_users |-> None,
   max_selected_items |-> m]

\* no filter is ever set here, so its #[validate] has nothing to report
multi_Conversation(p, a, c, m) ==
  [kind |-> "multi::Conversation", placeholder |-> p,
   action_id |-> a, confirm |-> c, initial_channels |-> None,
   default_to_current_conversation |-> None, filter |-> None,
   max_selected_items |-> m]

\* elems::select::validate::placeholder: the placeholder is at most 150
\* characters long
select_validate_placeholder(t) ==
  IF CharCount(Text_text(t)) > MaxPlaceholderLen THEN {"length"} ELSE {}

\* a variant of the range check that also rejects the minimum itself
RangeMinOpt_rejects_min(f, o, min) ==
  IF IsSome(o) /\ Unwrap(o) <= min THEN {FieldErr(f, "range")} ELSE {}

\* validate(range(min = n)) on an Option<u32>: checked only when Some
RangeMinOpt(f, o, min) ==
  IF IsSome(o) /\ Unwrap(o) < min THEN {FieldErr(f, "range")} ELSE {}

\* derive(Validate) for both structs: placeholder, action_id, confirm and
\* max_selected_items carry the same attributes in each
multi_errors(n) ==
  Custom("placeholder", select_validate_placeholder(n.placeholder))
    \cup LengthMaxStr("action_id", n.action_id, MaxActionIdLen)
    \cup (IF IsSome(n.confirm)
          THEN Nested("confirm", n.confirm, Confirm_validate(Unwrap(n.confirm)))
          ELSE {})
    \cup RangeMinOpt("max_selected_items", n.max_selected_items,
                     MinSelectedItems)

multi_User_validate(n) == ValidationResult(multi_errors(n))

multi_Conversation_validate(n) == ValidationResult(multi_errors(n))

MaxSelected == {None, Some(0), Some(MinSelectedItems), Some(5)}
Placeholders == {Text_plain(sShort), Text_plain(Str(MaxPlaceholderLen + 1, 0))}
MultiActionIds == {sShort, s256}
MultiConfirms == {None, Some(Confirm(FALSE))}

(***************************************************************************)
(* compose::validation                                                     *)
(***************************************************************************)
text_is_plain(t) ==
  IF t.kind = "mrkdwn" THEN {"text_is_plain"} ELSE {}

\* a variant of text_max_len that measures the UTF-8 byte length
text_max_len_bytes(t, max_len) ==
  LET len == ByteLen(Text_text(t))
  IN IF len > max_len THEN {"text_max_len"} ELSE {}

text_max_len(t, max_len) ==
  LET len == CharCount(Text_text(t))
  IN IF len > max_len THEN {"text_max_len"} ELSE {}

\* input::validation::text_max_len_2k
text_max_len_2k(t) == text_max_len(t, MaxLabelLen)

(***************************************************************************)
(* Block contents.  Each is built by a constructor and then by chainable   *)
(* setters that take the value and return it changed.                      *)
(***************************************************************************)
NoNode == [kind |-> "none"]

\* ToString::to_string / AsRef<str>::as_ref().to_string() of the argument:
\* a string is copied, an unsigned number is written in decimal
RECURSIVE Digits(_)
Digits(n) == IF n < 10 THEN 1 ELSE 1 + Digits(n \div 10)
to_string(x) == IF x.ty = "u32" THEN Str(Digits(x.n), 0) ELSE x.v

StrArg(s) == [ty |-> "str", v |-> s, n |-> 0]
U32Arg(n) == [ty |-> "u32", v |-> Str(0, 0), n |-> n]
BlockIds == {StrArg(s255), StrArg(s256), U32Arg(1234)}

\* ---- actions::Contents
\* actions::BlockElement, a variant and its payload
ActionEl(variant, payload) == [variant |-> variant, payload |-> payload]
btn == ActionEl("Button", <<"button_1">>)
ActionElVecs ==
  {<<>>, <<btn, ActionEl("DatePicker", <<>>)>>,
   Repeat(btn, MaxActionsElements), Repeat(btn, MaxActionsElements + 1)}

\* Contents::new() -> Default::default()
actions_new == [kind |-> "actions", elements |-> <<>>, block_id |-> None]

\* From<Vec<self::BlockElement>> for Contents
actions_from_vec(elements) ==
  [actions_new EXCEPT !.elements = elements]

\* Contents::from_action_elements
from_action_elements(elements) ==
  actions_from_vec([i \in 1..Len(elements) |-> elements[i]])

actions_with_block_id(c, block_id) ==
  [c EXCEPT !.block_id = Some(to_string(block_id))]

actions_errors(c) ==
  LengthMaxVec("elements", c.elements, MaxActionsElements)
    \cup LengthMaxOptStr("block_id", c.block_id, MaxBlockIdLen)

actions_validate(c) == ValidationResult(actions_errors(c))

\* ---- context::Contents
\* context::Compose, a variant and its payload
Compose_Text(t) == [variant |-> "Text", payload |-> <<t>>]
Compose_Image == [variant |-> "Image", payload |-> <<>>]

\* what with_element and from_context_elements accept: impl Into<Compose>
ComposeArg(ty, v) == [ty |-> ty, v |-> v]
\* From<text::Text> (impl_from_contents!) and the identity From<Compose>
IntoCompose(x) == IF x.ty = "text::Text" THEN Compose_Text(x.v) ELSE x.v
MapIntoCompose(v) == [i \in 1..Len(v) |-> IntoCompose(v[i])]

tx1 == ComposeArg("text::Text", Text_plain(sShort))
tx2 == ComposeArg("text::Text", Text_markdown(sShort))
img == ComposeArg("context::Compose", Compose_Image)
ContextArgs == {tx1, tx2, img}
ContextArgVecs == {<<tx1, img>>, Repeat(tx2, MaxContextElements)}

context_new == [kind |-> "context", elements |-> <<>>, block_id |-> None]

\* From<Vec<Compose>> for Contents
context_from_vec(elements) ==
  [context_new EXCEPT !.elements = elements]

from_context_elements(elements) ==
  context_from_vec(MapIntoCompose(elements))

context_with_block_id(c, block_id) ==
  [c EXCEPT !.block_id = Some(to_string(block_id))]

with_element(c, element) ==
  [c EXCEPT !.elements = Append(c.elements, IntoCompose(element))]

context_errors(c) ==
  LengthMaxVec("elements", c.elements, MaxContextElements)
    \cup LengthMaxOptStr("block_id", c.block_id, MaxBlockIdLen)

context_validate(c) == ValidationResult(context_errors(c))

\* ---- input::Contents
\* From<T: Into<select::Contents>> for InputElement
InputElement_from(sel) ==
  [variant |-> "Select", payload |-> <<[variant |-> sel, payload |-> <<>>]>>]

from_label_and_element(label, element) ==
  [kind |-> "input", label |-> label, element |-> InputElement_from(element),
   block_id |-> None, hint |-> None, optional |-> None]

input_with_block_id(c, block_id) ==
  [c EXCEPT !.block_id = Some(to_string(block_id))]

\* a variant of with_hint that puts the block back to required
with_hint_resets_optional(c, hint) ==
  [c EXCEPT !.hint = Some(hint), !.optional = None]

with_hint(c, hint) == [c EXCEPT !.hint = Some(hint)]

with_optional(c, optionality) == [c EXCEPT !.optional = Some(optionality)]

input_errors(c) ==
  Custom("label", text_max_len_2k(c.label))
    \cup LengthMaxOptStr("block_id", c.block_id, MaxBlockIdLen)
    \cup (IF IsSome(c.hint)
          THEN Custom("hint", text_max_len_2k(Unwrap(c.hint)))
          ELSE {})

input_validate(c) == ValidationResult(input_errors(c))

s2000 == Str(MaxLabelLen, 0)
s2001 == Str(MaxLabelLen + 1, 0)
\* 1000 three-byte characters: 1000 characters, 3000 bytes
sWide2k == Str(0, 1000)
Labels ==
  {Text_plain(sShort), Text_plain(s2000), Text_plain(s2001),
   Text_markdown(sWide2k)}
Hints == {Text_plain(s2000), Text_plain(s2001), Text_plain(sWide2k)}
Selects == {"Static", "User"}

(***************************************************************************)
(* Conversions between the general variant families and the families a     *)
(* container accepts.                                                      *)
(***************************************************************************)
\* Result<T, E>
Result_Ok(v) == [ok |-> TRUE, val |-> <<v>>, err |-> <<>>]
Result_Err(e) == [ok |-> FALSE, val |-> <<>>, err |-> <<e>>]

\* type Error = (): the unit value, which holds nothing
UnitError == [tag |-> "()", carried |-> <<>>]
\* UnsupportedComposeError::from(comp): Self(vec![comp])
UnsupportedComposeError_from(comp) ==
  [tag |-> "UnsupportedComposeError", carried |-> <<comp>>]

\* block_elements::BlockElement, the general family of block elements
El(variant, payload) ==
  [enum |-> "block_elements::BlockElement", variant |-> variant,
   payload |-> payload]
\* compose::Compose, the general family of composition objects
compose_Compose_Text(t) ==
  [enum |-> "compose::Compose", variant |-> "Text", payload |-> <<t>>]

\* the variants the enums declare
ActionsVariants ==
  {"Button", "Checkboxes", "DatePicker", "OverflowMenu", "PlainInput",
   "RadioButtons", "SelectPublicChannel", "SelectConversation"}
ContextVariants == {"Text", "Image"}
ComposeVariants == {"Text"}

\* a variant of the narrowing that lets every element through
actions_BlockElement_try_from_unchecked(el) ==
  Result_Ok(ActionEl(el.variant, el.payload))

\* TryFrom<block_elements::BlockElement> for actions::BlockElement
actions_BlockElement_try_from(el) ==
  CASE el.variant = "SelectPublicChannel" ->
         Result_Ok(ActionEl("SelectPublicChannel", el.payload))
    [] el.variant = "SelectConversation" ->
         Result_Ok(ActionEl("SelectConversation", el.payload))
    [] el.variant = "OverflowMenu" -> Result_Ok(ActionEl("OverflowMenu", <<>>))
    [] el.variant = "RadioButtons" -> Result_Ok(ActionEl("RadioButtons", <<>>))
    [] el.variant = "Button" -> Result_Ok(ActionEl("Button", el.payload))
    [] el.variant = "PlainInput" -> Result_Ok(ActionEl("PlainInput", <<>>))
    [] el.variant = "Checkboxes" -> Result_Ok(ActionEl("Checkboxes", <<>>))
    [] el.variant = "DatePicker" -> Result_Ok(ActionEl("DatePicker", <<>>))
    [] OTHER -> Result_Err(UnitError)

\* a variant of collect that leaves the failed conversions out
RECURSIVE collect_skips_failures(_)
collect_skips_failures(rs) ==
  IF rs = <<>> THEN Result_Ok(<<>>)
  ELSE LET rest == collect_skips_failures(Tail(rs))
       IN IF Head(rs).ok
          THEN Result_Ok(<<Unwrap(Head(rs).val)>> \o Unwrap(rest.val))
          ELSE rest

\* .collect::<Result<Vec<_>, _>>(): the values in order, or the first error,
\* at which the iteration stops
RECURSIVE collect(_)
collect(rs) ==
  IF rs = <<>> THEN Result_Ok(<<>>)
  ELSE IF ~Head(rs).ok THEN Result_Err(Unwrap(Head(rs).err))
  ELSE LET rest == collect(Tail(rs))
       IN IF rest.ok
          THEN Result_Ok(<<Unwrap(Head(rs).val)>> \o Unwrap(rest.val))
          ELSE rest

\* a variant of the conversion that refuses more elements than an Actions
\* block may hold
actions_try_from_vec_checks_len(elements) ==
  IF Len(elements) > MaxActionsElements
  THEN Result_Err(UnitError)
  ELSE LET r == collect([i \in 1..Len(elements) |->
                           actions_BlockElement_try_from(elements[i])])
       IN IF r.ok THEN Result_Ok(actions_from_vec(Unwrap(r.val))) ELSE r

\* TryFrom<Vec<block_elements::BlockElement>> for actions::Contents
actions_try_from_vec(elements) ==
  LET r == collect([i \in 1..Len(elements) |->
                      actions_BlockElement_try_from(elements[i])])
  IN IF r.ok THEN Result_Ok(actions_from_vec(Unwrap(r.val))) ELSE r

\* Contents::from_elements: collect into a Vec, then try_into
actions_from_elements(elements) ==
  actions_try_from_vec([i \in 1..Len(elements) |-> elements[i]])

\* TryFrom<block_elements::BlockElement> for actions::Contents
actions_try_from_element(element) ==
  LET r == actions_BlockElement_try_from(element)
  IN IF r.ok THEN Result_Ok(from_action_elements(<<Unwrap(r.val)>>)) ELSE r

\* From<Text> for compose::Compose (impl_from_contents!) and the identity
compose_Compose_from(x) ==
  IF x.ty = "text::Text" THEN compose_Compose_Text(x.v) ELSE x.v

\* TryFrom<compose::Compose> for context::Compose
context_Compose_try_from(comp) ==
  CASE comp.variant = "Text" -> Result_Ok(Compose_Text(Unwrap(comp.payload)))
    [] OTHER -> Result_Err(UnsupportedComposeError_from(comp))

\* context::Contents::from_elements
context_from_elements(elements) ==
  LET r == collect([i \in 1..Len(elements) |->
                      context_Compose_try_from(
                        compose_Compose_from(elements[i]))])
  IN IF r.ok THEN Result_Ok(context_from_vec(Unwrap(r.val))) ELSE r

\* the member of the general family that a member of the restricted one is:
\* the variant of the same name, holding the same payload
actions_widen(x) == El(x.variant, x.payload)
\* compose::Compose declares no Image: only a Text has a general counterpart
context_widen(x) ==
  IF x.variant \in ComposeVariants
  THEN Some(compose_Compose_Text(Unwrap(x.payload)))
  ELSE None

\* ---- widening: From<contents> for the enclosing enum
\* a value and the type it is of
Typed(ty, v) == [ty |-> ty, v |-> v]
\* $enum_name::$variant(contents)
Wrapped(enum, variant, contents) ==
  [enum |-> enum, variant |-> variant, payload |-> <<contents>>]

\* a variant of the conversion that files a Conversation under User
Select_from_conversation_as_user(x) ==
  Wrapped("Select", IF x.ty = "Conversation" THEN "User" ELSE x.ty, x.v)

\* convert!(impl From<..> for Select => ..), one per select kind
Select_from(x) ==
  CASE x.ty = "User" -> Wrapped("Select", "User", x.v)
    [] x.ty = "Static" -> Wrapped("Select", "Static", x.v)
    [] x.ty = "External" -> Wrapped("Select", "External", x.v)
    [] x.ty = "Conversation" -> Wrapped("Select", "Conversation", x.v)
    [] x.ty = "PublicChannel" -> Wrapped("Select", "PublicChannel", x.v)

\* impl_from_contents!(Contents, .., ..) of block_elements::select
select_Contents_from(x) ==
  CASE x.ty = "Static" -> Wrapped("select::Contents", "Static", x.v)
    [] x.ty = "External" -> Wrapped("select::Contents", "External", x.v)
    [] x.ty = "User" -> Wrapped("select::Contents", "User", x.v)
    [] x.ty = "Conversation" -> Wrapped("select::Contents", "Conversation", x.v)
    [] x.ty = "Channel" -> Wrapped("select::Contents", "Channel", x.v)

\* convert!(impl From<..> for BlockElement => ..) of blocks::actions
actions_BlockElement_from(x) ==
  CASE x.ty = "select::PublicChannel" -> ActionEl("SelectPublicChannel", <<x.v>>)
    [] x.ty = "select::Conversation" -> ActionEl("SelectConversation", <<x.v>>)
    [] x.ty = "Button" -> ActionEl("Button", <<x.v>>)

SelectKinds == {"User", "Static", "External", "Conversation", "PublicChannel"}
SelectContentsKinds == {"Static", "External", "User", "Conversation", "Channel"}
ActionsFromKinds == {"select::PublicChannel", "select::Conversation", "Button"}
\* two values of each type
Payloads == {"value_1", "value_2"}
WidenTexts == {Text_plain(sShort), Text_markdown(sShort), Text_plain(s255)}

\* the values the conversions are called with
gBtn == El("Button", <<"button_1">>)
gDate == El("DatePicker", <<>>)
gImage == El("Image", <<>>)
gMulti == El("MultiSelect", <<>>)
Els ==
  {gBtn, gDate, gImage, gMulti, El("Checkboxes", <<>>),
   El("OverflowMenu", <<>>), El("PlainInput", <<>>), El("RadioButtons", <<>>),
   El("SelectPublicChannel", <<"channel_select">>),
   El("SelectConversation", <<"conversation_select">>)}
ElVecs ==
  {<<>>, <<gBtn, gDate>>, <<gImage>>, <<gBtn, gMulti, gDate, gImage>>,
   Repeat(gBtn, MaxActionsElements + 1)}
ActionEls ==
  {btn, ActionEl("DatePicker", <<>>), ActionEl("Checkboxes", <<>>),
   ActionEl("OverflowMenu", <<>>), ActionEl("PlainInput", <<>>),
   ActionEl("RadioButtons", <<>>),
   ActionEl("SelectPublicChannel", <<"channel_select">>),
   ActionEl("SelectConversation", <<"conversation_select">>)}
ctxt2 ==
  ComposeArg("compose::Compose", compose_Compose_Text(Text_markdown(sShort)))
IntoComposeVecs == {<<>>, <<tx1, ctxt2>>, <<ctxt2, ctxt2, tx1>>}
ContextComposes ==
  {Compose_Text(Text_plain(sShort)), Compose_Text(Text_markdown(sShort)),
   Compose_Image}

\* ---- blocks::Block
\* impl_from_contents!(Block, <Variant>, <kind>::Contents)
Block_from(c) ==
  [kind |-> "Block",
   variant |-> CASE c.kind = "actions" -> "Actions"
                 [] c.kind = "context" -> "Context"
                 [] c.kind = "input" -> "Input",
   contents |-> c]

Block_Divider == [kind |-> "Block", variant |-> "Divider", contents |-> NoNode]

\* Block::validate: the contents' validate, todo!() for a variant not matched,
\* which is Divider (Section, Image and File are matched, but their contents
\* are not part of this development and no such block is built)
Block_validate(b) ==
  CASE b.variant = "Actions" -> actions_validate(b.contents)
    [] b.variant = "Context" -> context_validate(b.contents)
    [] b.variant = "Input" -> input_validate(b.contents)
    [] OTHER -> Panic

(***************************************************************************)
(* blocks.rs declares Block with the variants Section { text } and Divider *)
(* and implements Validate for it; its test validates a Section whose text *)
(* is a string of 3001 spaces.                                             *)
(***************************************************************************)
TestTextLen == 3001

\* tests::string_of_len: len one-byte characters
string_of_len(len) == Str(len, 0)

\* Block::Section { text: Text { text } }
Block_Section(s) ==
  [kind |-> "blocks.rs Block", variant |-> "Section", text |-> [text |-> s]]

\* impl Validate for Block: the body is todo!()
Validate_for_Block(b) == Panic

(***************************************************************************)
(* Serialization (derive(Serialize)): a struct is written as a JSON object *)
(* with one member per field; the object is kept as a function from the    *)
(* member names written to their values.                                   *)
(***************************************************************************)
JsonNull == [json |-> "null", of |-> <<>>]
JsonOf(v) == [json |-> "value", of |-> <<v>>]
\* an Option<T> field that is written: Some(v) as v, None as null
JsonOption(o) == IF IsSome(o) THEN JsonOf(Unwrap(o)) ELSE JsonNull

\* the fields each struct declares
StructFields(kind) ==
  CASE kind = "checkboxes" ->
         {"action_id", "options", "initial_options", "confirm"}
    [] kind = "actions" -> {"elements", "block_id"}
    [] kind = "context" -> {"elements", "block_id"}
    [] kind = "input" -> {"label", "element", "block_id", "hint", "optional"}
    [] kind = "multi::User" ->
         {"placeholder", "action_id", "confirm", "initial_users",
          "max_selected_items"}
    [] kind = "multi::Conversation" ->
         {"placeholder", "action_id", "confirm", "initial_channels",
          "default_to_current_conversation", "filter", "max_selected_items"}
\* those of type Option<_>
OptionFields(kind) ==
  CASE kind = "checkboxes" -> {"initial_options", "confirm"}
    [] kind = "actions" -> {"block_id"}
    [] kind = "context" -> {"block_id"}
    [] kind = "input" -> {"block_id", "hint", "optional"}
    [] kind = "multi::User" ->
         {"confirm", "initial_users", "max_selected_items"}
    [] kind = "multi::Conversation" ->
         {"confirm", "initial_channels", "default_to_current_conversation",
          "filter", "max_selected_items"}

\* the fields under #[serde(skip_serializing_if = "Option::is_none")]
SkipIfNone(kind) ==
  CASE kind = "checkboxes" -> {"initial_options", "confirm"}
    [] kind = "actions" -> {"block_id"}
    [] kind = "context" -> {}
    [] kind = "input" -> {}
    [] kind = "multi::User" ->
         {"confirm", "initial_users", "max_selected_items"}
    [] kind = "multi::Conversation" ->
         {"confirm", "initial_channels", "default_to_current_conversation",
          "filter", "max_selected_items"}

Serialize_struct(n) ==
  LET written == {f \in StructFields(n.kind) :
                    ~(f \in SkipIfNone(n.kind) /\ ~IsSome(n[f]))}
  IN [f \in written |->
        IF f \in OptionFields(n.kind) THEN JsonOption(n[f]) ELSE JsonOf(n[f])]

\* #[serde(rename = "..")] of the Block variants
Block_tag(variant) ==
  CASE variant = "Section" -> "section"
    [] variant = "Divider" -> "divider"
    [] variant = "Image" -> "image"
    [] variant = "File" -> "file"
    [] variant = "Actions" -> "actions"
    [] variant = "Context" -> "context"
    [] variant = "Input" -> "input"

\* #[serde(tag = "type")]: the members of the contents and, among them, the
\* tag under "type"; a unit variant is the tag alone
Serialize_Block(b) ==
  IF b.variant = "Divider"
  THEN [f \in {"type"} |-> JsonOf(Block_tag(b.variant))]
  ELSE LET inner == Serialize_struct(b.contents)
       IN [f \in DOMAIN inner \cup {"type"} |->
             IF f = "type" THEN JsonOf(Block_tag(b.variant)) ELSE inner[f]]

\* the variants Block declares
BlockVariants ==
  {"Section", "Divider", "Image", "Actions", "Context", "Input", "File"}

\* a variant of the dispatch that reads the tag "input" as an Actions block
Block_deserialize_input_as_actions(tag) ==
  IF tag = "input" THEN Result_Ok("Actions")
  ELSE IF \E v \in BlockVariants : Block_tag(v) = tag
  THEN Result_Ok(CHOOSE v \in BlockVariants : Block_tag(v) = tag)
  ELSE Result_Err([tag |-> "unknown variant", carried |-> <<tag>>])

\* derive(Deserialize), #[serde(tag = "type")]: the variant renamed to the
\* "type" member of the object; an error when no variant is
Block_deserialize(tag) ==
  CASE tag = "section" -> Result_Ok("Section")
    [] tag = "divider" -> Result_Ok("Divider")
    [] tag = "image" -> Result_Ok("Image")
    [] tag = "actions" -> Result_Ok("Actions")
    [] tag = "context" -> Result_Ok("Context")
    [] tag = "input" -> Result_Ok("Input")
    [] tag = "file" -> Result_Ok("File")
    [] OTHER -> Result_Err([tag |-> "unknown variant", carried |-> <<tag>>])

\* select_ty_value::PUBLIC_CHANNEL
PUBLIC_CHANNEL == "users_select"

\* the name a variant of Select is written under: the variant's own name
\* unless #[serde(rename = "..")] gives another
Select_tag(variant) ==
  CASE variant = "PublicChannel" -> "channels_select"
    [] variant = "Static" -> "Static"
    [] variant = "External" -> "External"
    [] variant = "User" -> "User"
    [] variant = "Conversation" -> "Conversation"

\* derive(Serialize) of Select, which has no tag attribute: an object of one
\* member, the contents under the variant's name
Serialize_Select(s) ==
  [f \in {Select_tag(s.variant)} |-> JsonOf(Unwrap(s.payload))]

Serialize(n) ==
  CASE n.kind = "Block" -> Serialize_Block(n)
    [] n.kind = "blocks.rs Block" ->
         [f \in {"type", "text"} |->
            IF f = "type" THEN JsonOf(Block_tag(n.variant)) ELSE JsonOf(n.text)]
    [] OTHER -> Serialize_struct(n)

\* validate on whichever value the program holds
Validate(n) ==
  CASE n.kind = "checkboxes" -> Checkboxes_validate(n)
    [] n.kind = "actions" -> actions_validate(n)
    [] n.kind = "context" -> context_validate(n)
    [] n.kind = "input" -> input_validate(n)
    [] n.kind = "Block" -> Block_validate(n)
    [] n.kind = "blocks.rs Block" -> Validate_for_Block(n)
    [] n.kind = "multi::User" -> multi_User_validate(n)
    [] n.kind = "multi::Conversation" -> multi_Conversation_validate(n)

\* a variant of validate that drops an over-long block_id as it checks
AfterValidate_clears(n) ==
  IF n.kind \in {"actions", "context", "input"} /\ IsSome(n.block_id)
     /\ CharCount(Unwrap(n.block_id)) > MaxBlockIdLen
  THEN [n EXCEPT !.block_id = None]
  ELSE n

\* validate(&self): the value is borrowed shared and left as it was
AfterValidate(n) == n

(***************************************************************************)
(* The state machine.                                                      *)
(***************************************************************************)
HistInit ==
  [action_id |-> None, bulk |-> None, appended |-> <<>>,
   initial_options |-> None, confirm |-> None,
   block_id |-> None, hint |-> None, optional |-> None]

Called(op, arg, again) == [op |-> op, arg |-> arg, again |-> again]

Init ==
  /\ phase = "start"
  /\ builder = NoBuilder
  /\ node = NoNode
  /\ result = None
  /\ first = None
  /\ nval = 0
  /\ call = Called("none", None, FALSE)
  /\ hist = HistInit
  /\ conv = None
  /\ wire = None

\* ---- the Checkboxes builder
CallBuilder ==
  /\ phase = "start"
  /\ builder' = Checkboxes_builder
  /\ phase' = "building"
  /\ call' = Called("builder", None, FALSE)
  /\ UNCHANGED <<node, result, first, nval, hist, conv, wire>>

CallNew ==
  /\ phase = "start"
  /\ \E A \in Markers, O \in Markers :
       /\ builder' = new(A, O)
       /\ call' = Called("new", <<A, O>>, FALSE)
  /\ phase' = "building"
  /\ UNCHANGED <<node, result, first, nval, hist, conv, wire>>

CallActionId ==
  /\ phase = "building"
  /\ \E s \in ActionIds :
       /\ builder' = action_id(builder, s)
       /\ call' = Called("action_id", s, IsSome(hist.action_id))
       /\ hist' = [hist EXCEPT !.action_id = Some(s)]
  /\ UNCHANGED <<phase, node, result, first, nval, conv, wire>>

CallOptions ==
  /\ phase = "building"
  /\ \E v \in OptVecs :
       /\ builder' = options(builder, v)
       /\ call' = Called("options", v, IsSome(hist.bulk))
       /\ hist' = [hist EXCEPT !.bulk = Some(v), !.appended = <<>>]
  /\ UNCHANGED <<phase, node, result, first, nval, conv, wire>>

CallOption ==
  /\ phase = "building"
  /\ Len(hist.appended) < MaxAppend
  /\ \E o \in AppendOpts :
       /\ builder' = option(builder, o)
       /\ call' = Called("option", o, FALSE)
       /\ hist' = [hist EXCEPT !.appended = Append(@, o)]
  /\ UNCHANGED <<phase, node, result, first, nval, conv, wire>>

CallChild ==
  /\ phase = "building"
  /\ Len(hist.appended) < MaxAppend
  /\ \E o \in AppendOpts :
       /\ builder' = child(builder, o)
       /\ call' = Called("child", o, FALSE)
       /\ hist' = [hist EXCEPT !.appended = Append(@, o)]
  /\ UNCHANGED <<phase, node, result, first, nval, conv, wire>>

CallInitialOptions ==
  /\ phase = "building"
  /\ \E v \in InitialOptVecs :
       /\ builder' = initial_options(builder, v)
       /\ call' = Called("initial_options", v, IsSome(hist.initial_options))
       /\ hist' = [hist EXCEPT !.initial_options = Some(v)]
  /\ UNCHANGED <<phase, node, result, first, nval, conv, wire>>

CallConfirm ==
  /\ phase = "building"
  /\ \E c \in Confirms :
       /\ builder' = confirm(builder, c)
       /\ call' = Called("confirm", c, IsSome(hist.confirm))
       /\ hist' = [hist EXCEPT !.confirm = Some(c)]
  /\ UNCHANGED <<phase, node, result, first, nval, conv, wire>>

\* build(self): the builder is consumed; unwrap of a None field panics
CallBuild ==
  /\ phase = "building"
  /\ BuildDefined(builder)
  /\ IF BuildPanics(builder)
     THEN phase' = "panicked" /\ node' = node
     ELSE phase' = "node" /\ node' = build(builder)
  /\ builder' = NoBuilder
  /\ call' = Called("build", None, FALSE)
  /\ UNCHANGED <<result, first, nval, hist, conv, wire>>

\* ---- block contents
Fresh(n, op, arg) ==
  /\ phase = "start"
  /\ phase' = "node"
  /\ node' = n
  /\ call' = Called(op, arg, FALSE)
  /\ UNCHANGED <<builder, result, first, nval, conv, wire>>

\* a setter on the contents: what validate returned before is of the old value
Changed(n, op, arg, again) ==
  /\ phase = "node"
  /\ node' = n
  /\ call' = Called(op, arg, again)
  /\ result' = None
  /\ first' = None
  /\ nval' = 0
  /\ UNCHANGED <<phase, builder, conv, wire>>

ActionsNew ==
  /\ Fresh(actions_new, "actions::new", None)
  /\ UNCHANGED hist

ActionsFromActionElements ==
  \E v \in ActionElVecs :
    /\ Fresh(from_action_elements(v), "from_action_elements", v)
    /\ hist' = [hist EXCEPT !.bulk = Some(v)]

ActionsWithBlockId ==
  /\ node.kind = "actions"
  /\ \E id \in BlockIds :
       /\ Changed(actions_with_block_id(node, id), "with_block_id", id,
                  IsSome(hist.block_id))
       /\ hist' = [hist EXCEPT !.block_id = Some(id)]

ContextNew ==
  /\ Fresh(context_new, "context::new", None)
  /\ UNCHANGED hist

ContextFromContextElements ==
  \E v \in ContextArgVecs :
    /\ Fresh(from_context_elements(v), "from_context_elements", v)
    /\ hist' = [hist EXCEPT !.bulk = Some(v)]

ContextWithBlockId ==
  /\ node.kind = "context"
  /\ \E id \in BlockIds :
       /\ Changed(context_with_block_id(node, id), "with_block_id", id,
                  IsSome(hist.block_id))
       /\ hist' = [hist EXCEPT !.block_id = Some(id)]

ContextWithElement ==
  /\ node.kind = "context"
  /\ Len(hist.appended) < MaxAppend
  /\ \E e \in ContextArgs :
       /\ Changed(with_element(node, e), "with_element", e, FALSE)
       /\ hist' = [hist EXCEPT !.appended = Append(@, e)]

InputFromLabelAndElement ==
  \E l \in Labels, e \in Selects :
    /\ Fresh(from_label_and_element(l, e), "from_label_and_element", <<l, e>>)
    /\ UNCHANGED hist

InputWithBlockId ==
  /\ node.kind = "input"
  /\ \E s \in {s255, s256} :
       /\ Changed(input_with_block_id(node, StrArg(s)), "with_block_id",
                  StrArg(s), IsSome(hist.block_id))
       /\ hist' = [hist EXCEPT !.block_id = Some(StrArg(s))]

InputWithHint ==
  /\ node.kind = "input"
  /\ \E h \in Hints :
       /\ Changed(with_hint(node, h), "with_hint", h, IsSome(hist.hint))
       /\ hist' = [hist EXCEPT !.hint = Some(h)]

InputWithOptional ==
  /\ node.kind = "input"
  /\ \E o \in BOOLEAN :
       /\ Changed(with_optional(node, o), "with_optional", o,
                  IsSome(hist.optional))
       /\ hist' = [hist EXCEPT !.optional = Some(o)]

\* let block: Block = contents.into()
IntoBlock ==
  /\ phase = "node"
  /\ node.kind \in {"actions", "context", "input"}
  /\ node' = Block_from(node)
  /\ call' = Called("into", None, FALSE)
  /\ result' = None
  /\ first' = None
  /\ nval' = 0
  /\ UNCHANGED <<phase, builder, hist, conv, wire>>

Divider ==
  /\ Fresh(Block_Divider, "Divider", None)
  /\ UNCHANGED hist

\* tests::block_should_validate builds its Section block
BlockSection ==
  \E s \in {sShort, string_of_len(TestTextLen)} :
    /\ Fresh(Block_Section(s), "Block::Section", Some(s))
    /\ UNCHANGED hist

\* a multi-select of users, of conversations
MultiUser ==
  \E p \in Placeholders, a \in MultiActionIds, c \in MultiConfirms,
     m \in MaxSelected :
    /\ Fresh(multi_User(p, a, c, m), "multi::User", m)
    /\ UNCHANGED hist

MultiConversation ==
  \E p \in Placeholders, a \in MultiActionIds, c \in MultiConfirms,
     m \in MaxSelected :
    /\ Fresh(multi_Conversation(p, a, c, m), "multi::Conversation", m)
    /\ UNCHANGED hist

\* ---- validation
CallValidate ==
  /\ phase = "node"
  /\ nval < MaxValidate
  /\ result' = Some(Validate(node))
  /\ first' = IF nval = 0 THEN result' ELSE first
  /\ nval' = nval + 1
  /\ node' = AfterValidate(node)
  /\ call' = Called("validate", None, nval > 0)
  /\ UNCHANGED <<phase, builder, hist, conv, wire>>

\* ---- conversions between the variant families
Converted(r, op, arg) ==
  /\ phase = "start"
  /\ phase' = "converted"
  /\ conv' = r
  /\ call' = Called(op, arg, FALSE)
  /\ UNCHANGED <<builder, node, result, first, nval, hist, wire>>

\* a fallible constructor: Ok gives the value, Err gives no value
Tried(r, op, arg) ==
  /\ phase = "start"
  /\ IF r.ok
     THEN phase' = "node" /\ node' = Unwrap(r.val)
     ELSE phase' = "rejected" /\ node' = node
  /\ conv' = Some(r)
  /\ call' = Called(op, arg, FALSE)
  /\ hist' = [hist EXCEPT !.bulk = Some(arg)]
  /\ UNCHANGED <<builder, result, first, nval, wire>>

ActionsBlockElementTryFrom ==
  \E el \in Els :
    Converted(Some(actions_BlockElement_try_from(el)),
              "actions::BlockElement::try_from", el)

ContextComposeTryFrom ==
  \E x \in {tx1, ctxt2} :
    Converted(Some(context_Compose_try_from(compose_Compose_from(x))),
              "context::Compose::try_from", compose_Compose_from(x))

\* a member of the restricted family taken to the general one and back
ActionsRoundTrip ==
  \E x \in ActionEls :
    Converted(Some(actions_BlockElement_try_from(actions_widen(x))),
              "actions::round_trip", x)

ContextRoundTrip ==
  \E x \in ContextComposes :
    LET w == context_widen(x)
    IN Converted(IF IsSome(w)
                 THEN Some(context_Compose_try_from(Unwrap(w)))
                 ELSE None,
                 "context::round_trip", x)

ActionsFromElements ==
  \E v \in ElVecs : Tried(actions_from_elements(v), "from_elements", v)

ActionsTryFromElement ==
  \E el \in {gBtn, gImage} :
    Tried(actions_try_from_element(el), "Contents::try_from", <<el>>)

\* from_elements and try_from on the widened elements of the Actions family
ActionsFromWidened ==
  \E s \in ActionElVecs :
    Converted(Some(actions_from_elements(
                     [i \in 1..Len(s) |-> actions_widen(s[i])])),
              "from_elements(widened)", s)

ActionsTryFromWidened ==
  \E x \in ActionEls :
    Converted(Some(actions_try_from_element(actions_widen(x))),
              "Contents::try_from(widened)", x)

ContextFromElements ==
  \E v \in IntoComposeVecs :
    Tried(context_from_elements(v), "context::from_elements", v)

\* ---- widening
SelectFrom ==
  \E k \in SelectKinds, v \in Payloads :
    Converted(Some(Select_from(Typed(k, v))), "Select::from", Typed(k, v))

SelectContentsFrom ==
  \E k \in SelectContentsKinds, v \in Payloads :
    Converted(Some(select_Contents_from(Typed(k, v))),
              "select::Contents::from", Typed(k, v))

ActionsBlockElementFrom ==
  \E k \in ActionsFromKinds, v \in Payloads :
    Converted(Some(actions_BlockElement_from(Typed(k, v))),
              "actions::BlockElement::from", Typed(k, v))

ContextComposeFrom ==
  \E t \in WidenTexts :
    Converted(Some(IntoCompose(ComposeArg("text::Text", t))),
              "context::Compose::from", ComposeArg("text::Text", t))

\* ---- serialization
\* serde_json::from_str::<Block>: the dispatch on the "type" member
CallDeserialize ==
  \E tag \in {Block_tag(v) : v \in BlockVariants} \cup {"header"} :
    Converted(Some(Block_deserialize(tag)), "Block::deserialize", tag)

SelectSerialize ==
  /\ phase = "converted"
  /\ call.op = "Select::from"
  /\ phase' = "serialized"
  /\ wire' = Some(Serialize_Select(Unwrap(conv)))
  /\ call' = Called("Select::serialize", call.arg, FALSE)
  /\ UNCHANGED <<builder, node, result, first, nval, hist, conv>>

CallSerialize ==
  /\ phase = "node"
  /\ phase' = "serialized"
  /\ wire' = Some(Serialize(node))
  /\ call' = Called("serialize", None, FALSE)
  /\ UNCHANGED <<builder, node, result, first, nval, hist, conv>>

Next ==
  \/ CallBuilder \/ CallNew
  \/ CallActionId \/ CallOptions \/ CallOption \/ CallChild
  \/ CallInitialOptions \/ CallConfirm \/ CallBuild
  \/ ActionsNew \/ ActionsFromActionElements \/ ActionsWithBlockId
  \/ ContextNew \/ ContextFromContextElements \/ ContextWithBlockId
  \/ ContextWithElement
  \/ InputFromLabelAndElement \/ InputWithBlockId \/ InputWithHint
  \/ InputWithOptional
  \/ IntoBlock \/ Divider \/ BlockSection
  \/ MultiUser \/ MultiConversation
  \/ CallValidate
  \/ ActionsBlockElementTryFrom \/ ContextComposeTryFrom
  \/ ActionsRoundTrip \/ ContextRoundTrip
  \/ ActionsFromElements \/ ActionsTryFromElement \/ ContextFromElements
  \/ ActionsFromWidened \/ ActionsTryFromWidened
  \/ SelectFrom \/ SelectContentsFrom \/ ActionsBlockElementFrom
  \/ ContextComposeFrom
  \/ CallSerialize \/ CallDeserialize \/ SelectSerialize

Spec == Init /\ [][Next]_vars

(***************************************************************************)
(* Properties.                                                             *)
(***************************************************************************)
\* what the setters were called with, as the node should hold it
OptionsSet == IsSome(hist.bulk) \/ hist.appended # <<>>
ExpectedOptions ==
  (IF IsSome(hist.bulk) THEN MapInto(Unwrap(hist.bulk)) ELSE <<>>)
    \o MapInto(hist.appended)
ExpectedInitialOptions ==
  IF IsSome(hist.initial_options)
  THEN Some(MapInto(Unwrap(hist.initial_options)))
  ELSE None
ExpectedBlockId ==
  IF IsSome(hist.block_id) THEN Some(to_string(Unwrap(hist.block_id))) ELSE None

IsCheckboxes == phase = "node" /\ node.kind = "checkboxes"
IsContents(k) == phase = "node" /\ node.kind = k
Validated == phase = "node" /\ IsSome(result)
Fields(r) == {e.field : e \in r.errs}

\* C1: build is reachable only when both markers are Set, and a builder
\* whose markers are both Set has had action_id and one of options / option
\* called on it.
C1_BuildOnlyAfterRequiredSetters ==
  (phase = "building" /\ BuildDefined(builder))
    => (IsSome(hist.action_id) /\ OptionsSet)

\* C2: build never aborts: once both markers are Set, build returns a
\* Checkboxes, because a Set marker means the field holds a value.
C2_BuildNeverAborts == phase # "panicked"

\* C3: a setter never clears a marker: a Set marker stays Set, action_id
\* keeps the options marker, options / option / child keep the action_id
\* marker, initial_options and confirm keep both.
C3_Step ==
  (phase = "building" /\ phase' = "building") =>
    /\ builder.A = Set => builder'.A = Set
    /\ builder.O = Set => builder'.O = Set
    /\ call'.op = "action_id" => builder'.O = builder.O
    /\ call'.op \in {"options", "option", "child"} => builder'.A = builder.A
    /\ call'.op \in {"initial_options", "confirm"} =>
         (builder'.A = builder.A /\ builder'.O = builder.O)
C3_MarkersMonotone == [][C3_Step]_vars

\* C3 witness: both markers were set by the setters and an optional setter
\* ran afterwards.
C3_Witness ==
  /\ phase = "building"
  /\ call.op \in {"initial_options", "confirm"}
  /\ IsSome(hist.action_id) /\ IsSome(hist.bulk)
  /\ builder.A = Set /\ builder.O = Set

\* C4: a scalar or bulk setter called again overwrites: the builder, and the
\* node built from it, hold the argument of the last call, and the repeated
\* call leaves the markers as they were.
C4_State ==
  /\ phase = "building" =>
       /\ call.op = "action_id" => builder.action_id = Some(call.arg)
       /\ call.op = "options" => builder.options = Some(MapInto(call.arg))
       /\ call.op = "initial_options" =>
            builder.initial_options = Some(MapInto(call.arg))
       /\ call.op = "confirm" => builder.confirm = Some(call.arg)
       /\ builder.action_id = hist.action_id
       /\ builder.initial_options = ExpectedInitialOptions
       /\ builder.confirm = hist.confirm
  /\ IsCheckboxes =>
       /\ node.action_id = Unwrap(hist.action_id)
       /\ node.initial_options = ExpectedInitialOptions
       /\ node.confirm = hist.confirm
  /\ (phase = "node" /\ node.kind \in {"actions", "context", "input"}) =>
       /\ call.op = "with_block_id" =>
            node.block_id = Some(to_string(call.arg))
       /\ node.block_id = ExpectedBlockId
C4_Step ==
  (phase = "building" /\ phase' = "building" /\ call'.again) =>
    (builder'.A = builder.A /\ builder'.O = builder.O)
C4_LastWriteWins == []C4_State /\ [][C4_Step]_vars

\* C4 witness: action_id was called a second time, with the over-long value,
\* on a builder that held another value.
C4_Witness ==
  /\ phase = "building"
  /\ call.op = "action_id" /\ call.again /\ call.arg = s256
  /\ builder.action_id = Some(s256)

\* C5: option after options(v) appends: the options are v, in order,
\* followed by the appended elements.
C5_AppendAfterBulk ==
  (phase = "building" /\ IsSome(hist.bulk) /\ hist.appended # <<>>) =>
    builder.options =
      Some(MapInto(Unwrap(hist.bulk)) \o MapInto(hist.appended))

\* C5 witness: one option appended to a bulk-set collection of two.
C5_Witness ==
  /\ phase = "building"
  /\ call.op = "option"
  /\ hist.bulk = Some(<<o1, o2>>) /\ hist.appended = <<o3>>
  /\ builder.options = Some(<<OptInto(o1), OptInto(o2), OptInto(o3)>>)

\* C6: n elements appended one at a time to an unset collection are, after
\* finalizing, exactly the collection, in append order; the first append
\* sets the options marker.
C6_IncrementalAppend ==
  /\ (IsCheckboxes /\ ~IsSome(hist.bulk)) =>
       node.options = MapInto(hist.appended)
  /\ (phase = "building" /\ hist.appended # <<>>) =>
       (builder.O = Set /\ IsSome(builder.options))
  /\ (IsContents("context") /\ ~IsSome(hist.bulk)) =>
       node.elements = MapIntoCompose(hist.appended)
  /\ (IsContents("Block") /\ node.variant = "Context" /\ ~IsSome(hist.bulk)) =>
       node.contents.elements = MapIntoCompose(hist.appended)

\* C6 witness: three options appended to a builder from Checkboxes::builder(),
\* then build.
C6_Witness ==
  /\ IsCheckboxes
  /\ ~IsSome(hist.bulk) /\ hist.appended = <<o1, o3, o1>>
  /\ node.options = <<OptInto(o1), OptInto(o3), OptInto(o1)>>

\* C7: build only assembles: the node holds exactly the values set, whatever
\* their content; build fails for no content (only for an absent required
\* field); an over-long action_id or more than 10 options is reported by a
\* later validate, as an error.
C7_BuildAssemblesOnly ==
  /\ IsCheckboxes =>
       /\ node.action_id = Unwrap(hist.action_id)
       /\ node.options = ExpectedOptions
       /\ node.initial_options = ExpectedInitialOptions
       /\ node.confirm = hist.confirm
  /\ phase = "panicked" => ~(IsSome(hist.action_id) /\ OptionsSet)
  /\ (IsCheckboxes /\ IsSome(result)
        /\ (CharCount(node.action_id) > MaxActionIdLen
              \/ Len(node.options) > MaxOptions)) =>
       Unwrap(result).outcome = "Err"

\* C7 witness: a node built with a 256-character action_id and 11 options,
\* on which validate then returned an error.
C7_Witness ==
  /\ IsCheckboxes
  /\ CharCount(node.action_id) = MaxActionIdLen + 1
  /\ Len(node.options) = MaxOptions + 1
  /\ IsSome(result) /\ Unwrap(result).outcome = "Err"

\* the fields of a node that break their own constraint, read off the node
OffendingCheckboxes(n) ==
  {f \in {"action_id", "options", "initial_options", "confirm"} :
     \/ f = "action_id" /\ CharCount(n.action_id) > MaxActionIdLen
     \/ f = "options" /\ Len(n.options) > MaxOptions
     \/ f = "initial_options" /\ IsSome(n.initial_options)
          /\ Len(Unwrap(n.initial_options)) > MaxOptions
     \/ f = "confirm" /\ IsSome(n.confirm) /\ ~Unwrap(n.confirm).valid}
OffendingActions(n) ==
  {f \in {"elements", "block_id"} :
     \/ f = "elements" /\ Len(n.elements) > MaxActionsElements
     \/ f = "block_id" /\ IsSome(n.block_id)
          /\ CharCount(Unwrap(n.block_id)) > MaxBlockIdLen}

\* C8: validation aggregates: a node that breaks the constraints of k fields
\* gets a report of exactly k violations, one keyed to each offending field.
C8_Aggregates ==
  /\ (Validated /\ node.kind = "checkboxes") =>
       /\ Fields(Unwrap(result)) = OffendingCheckboxes(node)
       /\ Cardinality(Unwrap(result).errs)
            = Cardinality(OffendingCheckboxes(node))
  /\ (Validated /\ node.kind = "actions") =>
       /\ Fields(Unwrap(result)) = OffendingActions(node)
       /\ Cardinality(Unwrap(result).errs) = Cardinality(OffendingActions(node))

\* C8 witness: a Checkboxes with an over-long action_id, 11 options and 11
\* initial_options, whose report has exactly three violations.
C8_Witness ==
  /\ Validated /\ node.kind = "checkboxes"
  /\ OffendingCheckboxes(node) = {"action_id", "options", "initial_options"}
  /\ Cardinality(Unwrap(result).errs) = 3

\* C9: validate is a pure read: a validate call leaves the node as it was,
\* and every further call on the unmutated node returns what the call before
\* it returned.
C9_Step ==
  (nval' = nval + 1) =>
    /\ node' = node
    /\ nval >= 1 => (result' = result /\ result' = first)
C10_TextBound2000 ==
  (Validated /\ node.kind = "input") =>
    LET r == Unwrap(result)
        blockIdOk == ~IsSome(node.block_id)
                       \/ CharCount(Unwrap(node.block_id)) <= MaxBlockIdLen
    IN /\ ("label" \in Fields(r)) <=> (CharCount(node.label.text) > 2000)
       /\ ("hint" \in Fields(r)) <=>
            (IsSome(node.hint) /\ CharCount(Unwrap(node.hint).text) > 2000)
       /\ (node.label.text = s2000 /\ blockIdOk
             /\ (~IsSome(node.hint) \/ Unwrap(node.hint).text = s2000)) =>
            r.outcome = "Ok"
       /\ (node.label.text = s2001 \/ node.hint = Some(Text_plain(s2001))) =>
            r.outcome = "Err"
       /\ (node.label.text = sWide2k) => "label" \notin Fields(r)

\* C10 witness: an Input block whose label has exactly 2000 characters and
\* whose hint is absent validated successfully.
C10_Witness ==
  /\ Validated /\ node.kind = "input"
  /\ CharCount(node.label.text) = 2000 /\ ~IsSome(node.hint)
  /\ Unwrap(result).outcome = "Ok"

\* C11: validate on an actions / context container with exactly bound + 1
\* children (6 for Actions, 11 for Context) reports exactly one violation
\* keyed at `elements`, of the count-bound kind (validator's `length` code on
\* the collection), and nothing else when the block_id is in range; with
\* exactly bound children and no other defect it returns Ok.
ElementsBound(n) ==
  IF n.kind = "actions" THEN MaxActionsElements ELSE MaxContextElements
BlockIdInRange(n) ==
  ~IsSome(n.block_id) \/ CharCount(Unwrap(n.block_id)) <= MaxBlockIdLen
C11_ChildCountBound ==
  (Validated /\ node.kind \in {"actions", "context"}) =>
    LET r == Unwrap(result)
        atElements == {e \in r.errs : e.field = "elements"}
    IN /\ Len(node.elements) = ElementsBound(node) + 1 =>
            /\ r.outcome = "Err"
            /\ Cardinality(atElements) = 1
            /\ \A e \in atElements : e.kind = "Field" /\ e.code = "length"
            /\ BlockIdInRange(node) => r.errs = atElements
       /\ (Len(node.elements) = ElementsBound(node) /\ BlockIdInRange(node)) =>
            r = Ok

\* a context block of 11 elements (10 set in bulk, one appended) on which
\* validate returned the single `elements` violation
C11_Witness ==
  /\ Validated
  /\ node.kind = "context"
  /\ Len(node.elements) = MaxContextElements + 1
  /\ Unwrap(result) = Err({FieldErr("elements", "length")})

\* C12: narrowing round trip: for every member x of a restricted family
\* (every variant of actions::BlockElement, every variant of
\* context::Compose), taking x to the general family and narrowing it back
\* returns Ok(x), the same variant with the same payload.
C12_NarrowRoundTrip ==
  (phase = "converted"
     /\ call.op \in {"actions::round_trip", "context::round_trip"}) =>
    conv = Some(Result_Ok(call.arg))

\* C13: a narrowing that rejects returns an error that carries the
\* discriminant of the offending node.
C13_RejectionCarriesDiscriminant ==
  (phase = "converted"
     /\ call.op \in {"actions::BlockElement::try_from",
                     "context::Compose::try_from"}
     /\ ~Unwrap(conv).ok) =>
    LET e == Unwrap(Unwrap(conv).err)
    IN IsSome(e.carried) /\ Unwrap(e.carried).variant = call.arg.variant

\* the positions of the elements that are not of the accepted variants
OutOfFamily(v, accepted) == {i \in 1..Len(v) : v[i].variant \notin accepted}
FirstOf(S) == CHOOSE i \in S : \A j \in S : i <= j

\* C14: narrowing a collection (from_elements, TryFrom<Vec<_>>, the
\* one-element TryFrom) fails iff at least one element is out of family; the
\* error is that of the first such element in input order, one error and not
\* a list of them, and no container is produced; otherwise the container
\* holds every element, narrowed, in input order.
C14_CollectionNarrowing ==
  /\ (phase \in {"node", "rejected"}
        /\ call.op \in {"from_elements", "Contents::try_from"}) =>
       LET v == call.arg
           bad == OutOfFamily(v, ActionsVariants)
           r == Unwrap(conv)
       IN /\ (phase = "rejected") = (bad # {})
          /\ r.ok = (bad = {})
          /\ bad # {} =>
               /\ r = actions_BlockElement_try_from(v[FirstOf(bad)])
               /\ Len(r.err) = 1 /\ r.val = <<>>
               /\ node = NoNode
          /\ bad = {} =>
               /\ node.kind = "actions"
               /\ node.elements =
                    [i \in 1..Len(v) |-> ActionEl(v[i].variant, v[i].payload)]
  /\ (phase \in {"node", "rejected"} /\ call.op = "context::from_elements") =>
       LET v == [i \in 1..Len(call.arg) |-> compose_Compose_from(call.arg[i])]
           bad == OutOfFamily(v, {"Text"})
           r == Unwrap(conv)
       IN /\ (phase = "rejected") = (bad # {})
          /\ r.ok = (bad = {})
          /\ bad # {} =>
               /\ r = context_Compose_try_from(v[FirstOf(bad)])
               /\ node = NoNode
          /\ bad = {} =>
               /\ node.kind = "context"
               /\ node.elements =
                    [i \in 1..Len(v) |-> Compose_Text(Unwrap(v[i].payload))]

\* C14 witness: from_elements on a Button, a MultiSelect, a DatePicker and an
\* Image returned the one error and no container.
C14_Witness ==
  /\ phase = "rejected"
  /\ call.op = "from_elements"
  /\ call.arg = <<gBtn, gMulti, gDate, gImage>>
  /\ conv = Some(Result_Err(UnitError))
  /\ node = NoNode

\* the children of a container are members of its restricted family
ChildrenInFamily(c) ==
  \A i \in 1..Len(c.elements) :
    /\ DOMAIN c.elements[i] = {"variant", "payload"}
    /\ c.elements[i].variant \in
         (IF c.kind = "actions" THEN ActionsVariants ELSE ContextVariants)
HeldContainers ==
  IF phase \notin {"node", "serialized"} THEN {}
  ELSE IF node.kind \in {"actions", "context"} THEN {node}
  ELSE IF node.kind = "Block" /\ node.variant \in {"Actions", "Context"}
  THEN {node.contents}
  ELSE {}

\* C15: every actions / context container the program can hold, however it
\* was built, has only children of its restricted family; an out-of-family
\* element fails the conversion (no container, nothing to validate), and no
\* validation report speaks of family membership: on `elements` it only
\* ever reports the count bound.
C15_ChildrenInFamily ==
  /\ \A c \in HeldContainers : ChildrenInFamily(c)
  /\ phase = "rejected" =>
       (node = NoNode /\ result = None /\ ~Unwrap(conv).ok)
  /\ (Validated /\ HeldContainers # {}) =>
       \A e \in Unwrap(result).errs :
         e.field = "elements" =>
           /\ e.kind = "Field" /\ e.code = "length"
           /\ \E c \in HeldContainers : Len(c.elements) > ElementsBound(c)

\* C15 witness: a container built by from_elements out of general elements,
\* wrapped into a Block and validated.
C15_Witness ==
  /\ Validated
  /\ node.kind = "Block" /\ node.variant = "Actions"
  /\ hist.bulk = Some(Repeat(gBtn, MaxActionsElements + 1))
  /\ Len(node.contents.elements) = MaxActionsElements + 1
  /\ Unwrap(result).outcome = "Err"

\* C16: an optional field that is absent is left out of the serialized JSON
\* object, never written as null, for every node kind: the block_id of
\* Actions, Context and Input, the hint and optional of Input, the
\* initial_options and confirm of Checkboxes.
C16_AbsentFieldsOmitted ==
  phase = "serialized" =>
    \A f \in DOMAIN Unwrap(wire) : Unwrap(wire)[f].json # "null"

\* the block contents held, bare or inside a Block
HeldContents ==
  IF phase # "node" THEN {}
  ELSE IF node.kind \in {"actions", "context", "input"} THEN {node}
  ELSE IF node.kind = "Block" /\ node.variant # "Divider" THEN {node.contents}
  ELSE {}

C18_LabelAndHintPlain ==
  (Validated /\ node.kind = "input") =>
    LET r == Unwrap(result)
    IN /\ node.label.kind = "mrkdwn" => "label" \in Fields(r)
       /\ (IsSome(node.hint) /\ Unwrap(node.hint).kind = "mrkdwn") =>
            "hint" \in Fields(r)

\* the positions of the options that their own validation rejects
InvalidOpts(v) == {i \in 1..Len(v) : Opt_validate(v[i]).outcome = "Err"}

\* C19: validate on a Checkboxes reports a violation under `confirm` whenever
\* confirm is set and invalid, and under `options` / `initial_options`
\* whenever any element of that collection is itself an invalid Opt.
C19_ValidationRecurses ==
  (Validated /\ node.kind = "checkboxes") =>
    LET r == Unwrap(result)
    IN /\ (IsSome(node.confirm)
             /\ Confirm_validate(Unwrap(node.confirm)).outcome = "Err") =>
            \E e \in r.errs : e.field = "confirm" /\ e.inner # {}
       /\ InvalidOpts(node.options) # {} => "options" \in Fields(r)
       /\ (IsSome(node.initial_options)
             /\ InvalidOpts(Unwrap(node.initial_options)) # {}) =>
            "initial_options" \in Fields(r)

\* the variant each type belongs under, read off the enum declarations
ActionsVariantOf(ty) ==
  CASE ty = "select::PublicChannel" -> "SelectPublicChannel"
    [] ty = "select::Conversation" -> "SelectConversation"
    [] ty = "Button" -> "Button"
BlockVariantOf(kind) ==
  CASE kind = "actions" -> "Actions"
    [] kind = "context" -> "Context"
    [] kind = "input" -> "Input"
Injective(f(_), S) == \A x, y \in S : f(x) = f(y) => x = y

\* C20: widening is total and a structural injection: block contents into
\* Block, a select kind into Select (and into select::Contents), Button and
\* the select kinds into actions::BlockElement, text into context::Compose:
\* each returns a value for every input, of the variant of the input's own
\* kind, holding the input unchanged, and distinct inputs give distinct
\* outputs.
C20_State ==
  /\ (phase = "converted" /\ call.op = "Select::from") =>
       /\ conv = Some(Wrapped("Select", call.arg.ty, call.arg.v))
       /\ Injective(Select_from,
                    {Typed(k, v) : k \in SelectKinds, v \in Payloads})
  /\ (phase = "converted" /\ call.op = "select::Contents::from") =>
       /\ conv = Some(Wrapped("select::Contents", call.arg.ty, call.arg.v))
       /\ Injective(select_Contents_from,
                    {Typed(k, v) : k \in SelectContentsKinds, v \in Payloads})
  /\ (phase = "converted" /\ call.op = "actions::BlockElement::from") =>
       /\ conv = Some(ActionEl(ActionsVariantOf(call.arg.ty), <<call.arg.v>>))
       /\ Unwrap(conv).variant \in ActionsVariants
       /\ Injective(actions_BlockElement_from,
                    {Typed(k, v) : k \in ActionsFromKinds, v \in Payloads})
  /\ (phase = "converted" /\ call.op = "context::Compose::from") =>
       /\ conv = Some([variant |-> "Text", payload |-> <<call.arg.v>>])
       /\ Injective(IntoCompose,
                    {ComposeArg("text::Text", t) : t \in WidenTexts})
  /\ (phase = "node" /\ node.kind = "Block" /\ node.variant # "Divider") =>
       node.variant = BlockVariantOf(node.contents.kind)
C20_Step ==
  (phase = "node" /\ phase' = "node" /\ call'.op = "into") =>
    (node'.kind = "Block" /\ node'.contents = node)
C20_WideningInjection == []C20_State /\ [][C20_Step]_vars

\* C20 witness: a select::PublicChannel was converted into a Select and came
\* back as Select::PublicChannel holding it.
C20_Witness ==
  /\ phase = "converted"
  /\ call.op = "Select::from"
  /\ call.arg = Typed("PublicChannel", "value_2")
  /\ conv = Some(Wrapped("Select", "PublicChannel", "value_2"))

\* the Block variant of the same kind as each tag
VariantOfKind ==
  [tag \in {"section", "divider", "image", "actions", "context", "input",
            "file"} |->
     CASE tag = "section" -> "Section"
       [] tag = "divider" -> "Divider"
       [] tag = "image" -> "Image"
       [] tag = "actions" -> "Actions"
       [] tag = "context" -> "Context"
       [] tag = "input" -> "Input"
       [] tag = "file" -> "File"]

\* C21: deserializing an object whose `type` is one of section, divider,
\* image, actions, context, input, file yields the Block variant of that
\* kind; distinct variants have distinct tags, so a serialized Block
\* dispatches back to its own variant.
C21_TagDispatch ==
  /\ (phase = "converted" /\ call.op = "Block::deserialize"
        /\ call.arg \in DOMAIN VariantOfKind) =>
       conv = Some(Result_Ok(VariantOfKind[call.arg]))
  /\ \A v, w \in BlockVariants : Block_tag(v) = Block_tag(w) => v = w
  /\ (phase = "serialized" /\ node.kind = "Block") =>
       Block_deserialize(Unwrap(Unwrap(wire)["type"].of))
         = Result_Ok(node.variant)

\* C21 witness: an object tagged "input" was deserialized into Block::Input.
C21_Witness ==
  /\ phase = "converted"
  /\ call.op = "Block::deserialize" /\ call.arg = "input"
  /\ conv = Some(Result_Ok("Input"))

\* C22: validate on a Checkboxes reports no count violation when options
\* (and initial_options, when present) hold exactly 10 elements, and returns
\* an error, with the violation under that field, when either holds 11 or
\* more; an absent initial_options is no violation.
C22_OptionCountBound ==
  (Validated /\ node.kind = "checkboxes") =>
    LET r == Unwrap(result)
    IN /\ Len(node.options) <= 10 => "options" \notin Fields(r)
       /\ Len(node.options) >= 11 =>
            (r.outcome = "Err" /\ FieldErr("options", "length") \in r.errs)
       /\ ~IsSome(node.initial_options) => "initial_options" \notin Fields(r)
       /\ IsSome(node.initial_options) =>
            /\ Len(Unwrap(node.initial_options)) <= 10 =>
                 "initial_options" \notin Fields(r)
            /\ Len(Unwrap(node.initial_options)) >= 11 =>
                 /\ r.outcome = "Err"
                 /\ FieldErr("initial_options", "length") \in r.errs

\* C22 witness: a Checkboxes with exactly 10 options and exactly 10
\* initial_options, on which validate returned Ok.
C22_Witness ==
  /\ Validated /\ node.kind = "checkboxes"
  /\ Len(node.options) = 10
  /\ IsSome(node.initial_options) /\ Len(Unwrap(node.initial_options)) = 10
  /\ Unwrap(result) = Ok

\* no constraint of the value, or of a child nested in it, is broken
RECURSIVE NoViolation(_)
NoViolation(n) ==
  CASE n.kind = "checkboxes" ->
         /\ OffendingCheckboxes(n) = {}
         /\ InvalidOpts(n.options) = {}
         /\ IsSome(n.initial_options) =>
              InvalidOpts(Unwrap(n.initial_options)) = {}
    [] n.kind \in {"actions", "context"} ->
         /\ Len(n.elements) <= ElementsBound(n)
         /\ BlockIdInRange(n)
    [] n.kind = "input" ->
         /\ CharCount(n.label.text) <= MaxLabelLen
         /\ IsSome(n.hint) => CharCount(Unwrap(n.hint).text) <= MaxLabelLen
         /\ BlockIdInRange(n)
    [] n.kind = "Block" ->
         IF n.variant = "Divider" THEN TRUE ELSE NoViolation(n.contents)

\* C23: validate returns the success case if and only if no constraint of
\* the node or of any nested child is violated, and a returned error holds
\* at least one violation.
C23_SuccessIffNoViolation ==
  (Validated
     /\ node.kind \in {"checkboxes", "actions", "context", "input", "Block"}) =>
    LET r == Unwrap(result)
    IN /\ (r = Ok) = NoViolation(node)
       /\ r.outcome = "Err" => r.errs # {}

\* C25: Block::validate is total over the variants of Block: it returns a
\* result (success or error) and never aborts, and a Divider validates
\* successfully.
C25_BlockValidateTotal ==
  (Validated /\ node.kind = "Block") =>
    /\ Unwrap(result).outcome \in {"Ok", "Err"}
    /\ node.variant = "Divider" => Unwrap(result) = Ok

\* C24: validating a Section block whose text is longer than 3000 characters
\* (the test's case: 3001) returns an error of the Text validation kind; it
\* neither succeeds nor aborts.
C24_SectionTextTooLong ==
  (Validated /\ node.kind = "blocks.rs Block" /\ node.variant = "Section"
     /\ CharCount(node.text.text) >= TestTextLen) =>
    LET r == Unwrap(result)
    IN /\ r.outcome = "Err"
       /\ \E e \in r.errs : e.code = "Text"

\* C26: the bulk setter replaces the whole collection: after options(v) the
\* builder's options are exactly v, in order, whatever was held before (an
\* earlier bulk value or appended elements), and the options marker is Set
\* even when v is empty.
C26_BulkReplaces ==
  [][(phase = "building" /\ call'.op = "options") =>
       /\ builder'.options = Some(MapInto(call'.arg))
       /\ Len(Unwrap(builder'.options)) = Len(call'.arg)
       /\ builder'.O = Set]_vars

\* C26 witness: options was called with the empty vector on a builder that
\* held options, and holds none now with the marker Set.
C26_Witness ==
  /\ phase = "building"
  /\ call.op = "options" /\ call.again /\ call.arg = <<>>
  /\ builder.options = Some(<<>>) /\ builder.O = Set

\* C27: the range check on max_selected_items of the multi-select User and
\* Conversation reports no violation when the field is absent or at least 1,
\* and returns an error naming the field when it is 0.
C27_MaxSelectedRange ==
  (Validated /\ node.kind \in {"multi::User", "multi::Conversation"}) =>
    LET r == Unwrap(result)
        m == node.max_selected_items
    IN /\ (~IsSome(m) \/ Unwrap(m) >= 1) =>
            ~("max_selected_items" \in Fields(r))
       /\ (IsSome(m) /\ Unwrap(m) = 0) =>
            /\ r.outcome = "Err"
            /\ FieldErr("max_selected_items", "range") \in r.errs

\* C27 witness: a multi-select of conversations, valid but for its
\* max_selected_items of 0, was validated and the report holds that field
\* alone.
C27_Witness ==
  /\ Validated /\ node.kind = "multi::Conversation"
  /\ node.max_selected_items = Some(0)
  /\ Unwrap(result) = Err({FieldErr("max_selected_items", "range")})

\* C28: the fallible and the infallible Actions constructors agree on
\* in-family input: from_elements on the widened elements of a sequence s of
\* actions::BlockElement returns Ok of a Contents equal to
\* from_action_elements(s), the same elements in the same order and no
\* block_id; try_from of one widened element gives a Contents holding
\* exactly that element.
C28_ConstructorsAgree ==
  /\ (phase = "converted" /\ call.op = "from_elements(widened)") =>
       /\ conv = Some(Result_Ok(from_action_elements(call.arg)))
       /\ Unwrap(Unwrap(conv).val).elements = call.arg
       /\ Unwrap(Unwrap(conv).val).block_id = None
  /\ (phase = "converted" /\ call.op = "Contents::try_from(widened)") =>
       /\ Unwrap(conv).ok
       /\ Unwrap(Unwrap(conv).val).elements = <<call.arg>>
       /\ Unwrap(Unwrap(conv).val).block_id = None

\* C28 witness: from_elements was given the widened button and date picker
\* and returned the Contents from_action_elements builds from the two.
C28_Witness ==
  /\ phase = "converted" /\ call.op = "from_elements(widened)"
  /\ call.arg = <<btn, ActionEl("DatePicker", <<>>)>>
  /\ conv = Some(Result_Ok(from_action_elements(call.arg)))

\* C29: each chainable setter changes only its own field: with_block_id
\* leaves the elements and their order; with_element of a Context block
\* leaves block_id and the elements held, and adds exactly one element at
\* the end; with_hint, with_optional and with_block_id of an Input block
\* leave label, element and the other optional fields; each setter of the
\* CheckboxesBuilder carries every other field over.
C29_OnNode ==
  (phase = "node" /\ phase' = "node") =>
    /\ (call'.op = "with_block_id" /\ node.kind \in {"actions", "context"}) =>
         node'.elements = node.elements
    /\ call'.op = "with_element" =>
         /\ node'.block_id = node.block_id
         /\ Len(node'.elements) = Len(node.elements) + 1
         /\ SubSeq(node'.elements, 1, Len(node.elements)) = node.elements
    /\ (call'.op = "with_block_id" /\ node.kind = "input") =>
         /\ node'.label = node.label /\ node'.element = node.element
         /\ node'.hint = node.hint /\ node'.optional = node.optional
    /\ call'.op = "with_hint" =>
         /\ node'.label = node.label /\ node'.element = node.element
         /\ node'.block_id = node.block_id /\ node'.optional = node.optional
    /\ call'.op = "with_optional" =>
         /\ node'.label = node.label /\ node'.element = node.element
         /\ node'.block_id = node.block_id /\ node'.hint = node.hint
C29_OnBuilder ==
  (phase = "building" /\ phase' = "building") =>
    /\ call'.op = "action_id" =>
         /\ builder'.options = builder.options
         /\ builder'.initial_options = builder.initial_options
         /\ builder'.confirm = builder.confirm
    /\ call'.op \in {"options", "option", "child"} =>
         /\ builder'.action_id = builder.action_id
         /\ builder'.initial_options = builder.initial_options
         /\ builder'.confirm = builder.confirm
    /\ call'.op = "initial_options" =>
         /\ builder'.action_id = builder.action_id
         /\ builder'.options = builder.options
         /\ builder'.confirm = builder.confirm
    /\ call'.op = "confirm" =>
         /\ builder'.action_id = builder.action_id
         /\ builder'.options = builder.options
         /\ builder'.initial_options = builder.initial_options
C29_SettersFrame == [][C29_OnNode /\ C29_OnBuilder]_vars

\* C29 witness: with_hint was called on an Input block whose block_id and
\* optional were set, and both are still held next to the hint.
C29_Witness ==
  /\ phase = "node" /\ node.kind = "input"
  /\ call.op = "with_hint"
  /\ node.hint = Some(call.arg)
  /\ node.optional = Some(TRUE) /\ IsSome(node.block_id)

\* C30: each select kind has one discriminant tag, distinct from the tags of
\* the other kinds: select_ty_value::PUBLIC_CHANNEL is the tag under which
\* Select writes PublicChannel (channels_select) and is not the tag of the
\* users select (users_select).
C30_PublicChannelTag ==
  /\ Injective(Select_tag, SelectKinds)
  /\ (phase = "serialized" /\ call.op = "Select::serialize"
        /\ call.arg.ty = "PublicChannel") =>
       /\ DOMAIN Unwrap(wire) = {"channels_select"}
       /\ PUBLIC_CHANNEL \in DOMAIN Unwrap(wire)
       /\ PUBLIC_CHANNEL # "users_select"

====
